---- MODULE Spec2Model ----
(***************************************************************************)
(* A model of src/src/unifiedFileSystem.ts: the UnifiedFileSystem facade   *)
(* (Entry Cache, Directory Membership Index, Change Ledger) and the        *)
(* command interpreter (handleCommand / executeRepomod) that drives it.    *)
(*                                                                         *)
(* A path is a sequence of names (<<"a","b">> is /a/b, <<>> is /).  The    *)
(* backing-store collaborators handed to the constructor are the           *)
(* environment.  Under Spec every facade method is called in any order and *)
(* every collaborator call answers nondeterministically; under SpecRun one *)
(* executeRepomod run is interpreted over a fixed backing tree.            *)
(***************************************************************************)
EXTENDS Integers, Sequences, FiniteSets, TLC

VARIABLES
    entries,         \* __entries: Map<PathHashDigest, UnifiedEntry>
    directoryFiles,  \* __directoryFiles: LeftRightHashSetManager
    changes,         \* __changes: Map<PathHashDigest, string | null>, in insertion order
    lastOp,          \* history: the last facade call, its inputs, collaborator calls and result
    staged,          \* history: per key, the last deleteFile / upsertData call made for it
    listed,          \* history: per directory path, every child readDirectory has returned
    backing,         \* the backing store of a run: path -> [kind, data]
    repomod,         \* the Repomod of a run: its include patterns and hooks
    rootPath,        \* the path executeRepomod is called with
    stack,           \* the commands of the run still to be handled, innermost first
    status,          \* "idle", "running", "returned" or "threw": where executeRepomod is
    result,          \* what executeRepomod returned
    hookLog          \* history: the hooks invoked and the stages made by the run, in order

facadeVars == <<entries, directoryFiles, changes>>
historyVars == <<lastOp, staged, listed>>
runVars == <<backing, repomod, rootPath, stack, status, result, hookLog>>
vars == <<entries, directoryFiles, changes, lastOp, staged, listed,
          backing, repomod, rootPath, stack, status, result, hookLog>>

----------------------------------------------------------------------------
(* Bounds of the model *)

\* longest listing the backing __readDirectory answers with under Spec
MaxListing == 2
\* longest answer of the __glob collaborator under Spec
MaxGlob == 1

----------------------------------------------------------------------------
(* Values *)

\* JS null in the Change Ledger (a deletion marker); never a data string
Null == "<null>"
\* JS undefined, the answer of Map.get for a missing key; never a data string
Undefined == "<undefined>"

\* the paths the facade methods are called with under Spec
FacadePaths == {<<"d">>, <<"d", "a">>}
\* the data strings staged by upsertData under Spec ("" is a legal content)
StageData == {"", "X"}
\* the contents the backing __readFile answers with under Spec
BackingData == {"B"}

Entry(kind, path) == [kind |-> kind, path |-> path]
\* "no entry": the null / undefined of a UnifiedEntry-typed value
NoEntry == Entry("none", <<>>)

BoundedSeq(S, n) == UNION {[1..m -> S] : m \in 0..n}
Range(s) == {s[i] : i \in 1..Len(s)}
IsPrefix(p, q) == Len(p) <= Len(q) /\ SubSeq(q, 1, Len(p)) = p

\* __buildPathHashDigest: the injected digest, collision-free on paths
buildPathHashDigest(path) == <<"#">> \o path

----------------------------------------------------------------------------
(* JS Map: a function whose domain is the set of keys present *)

EmptyMap == [k \in {} |-> NoEntry]
MapHas(m, k) == k \in DOMAIN m
MapSet(m, k, v) == [x \in (DOMAIN m) \cup {k} |-> IF x = k THEN v ELSE m[x]]

\* __changes keeps insertion order (forEach iterates in it): a sequence of
\* [key, data]; set() on a present key replaces the value in place
ChangesHas(chg, k) == \E i \in 1..Len(chg) : chg[i].key = k
ChangesGet(chg, k) ==
    IF ChangesHas(chg, k)
    THEN (CHOOSE c \in Range(chg) : c.key = k).data
    ELSE Undefined
ChangesSet(chg, k, d) ==
    IF ChangesHas(chg, k)
    THEN [i \in 1..Len(chg) |-> IF chg[i].key = k THEN [key |-> k, data |-> d] ELSE chg[i]]
    ELSE Append(chg, [key |-> k, data |-> d])

\* LeftRightHashSetManager: per left hash, the right hashes in order of first insertion
LeftRightUpsert(df, left, right) ==
    LET old == IF left \in DOMAIN df THEN df[left] ELSE <<>>
    IN  IF right \in Range(old) THEN MapSet(df, left, old)
        ELSE MapSet(df, left, Append(old, right))
GetRightHashesByLeftHash(df, left) == IF left \in DOMAIN df THEN df[left] ELSE <<>>

----------------------------------------------------------------------------
(* UnifiedFileSystem.  Each method is an operator from the fields it reads  *)
(* and the answers of the collaborators it awaits to the fields it writes   *)
(* and its result.  outcome is "entry" / "null" for an Entry-or-null        *)
(* result, "ok" for any other normal return, "throws" for a rejection;      *)
(* calls lists the collaborator invocations in order.                       *)

\* the rejection of an upsert whose describe-path call was rejected
Threw(ents, who) ==
    [entries |-> ents, outcome |-> "throws", error |-> who, entry |-> NoEntry,
     calls |-> <<who>>]

upsertUnifiedDirectory(ents, directoryPath, d) ==
    LET directoryPathHashDigest == buildPathHashDigest(directoryPath)
    IN  IF ~MapHas(ents, directoryPathHashDigest)
        THEN IF ~d.ok
             THEN Threw(ents, "getUnifiedEntry")
             ELSE IF d.entry.kind # "directory"
             THEN [entries |-> ents, outcome |-> "null", error |-> "", entry |-> NoEntry,
                   calls |-> <<"getUnifiedEntry">>]
             ELSE [entries |-> MapSet(ents, directoryPathHashDigest, d.entry),
                   outcome |-> "entry", error |-> "", entry |-> d.entry,
                   calls |-> <<"getUnifiedEntry">>]
        ELSE [entries |-> ents, outcome |-> "entry", error |-> "",
              entry |-> ents[directoryPathHashDigest], calls |-> <<>>]

\* upsertUnifiedFile asking the backing store whether or not the path is cached
upsertUnifiedFileAlwaysAsks(ents, filePath, d) ==
    IF ~d.ok
    THEN Threw(ents, "getUnifiedEntry")
    ELSE IF d.entry.kind # "file"
    THEN [entries |-> ents, outcome |-> "null", error |-> "", entry |-> NoEntry,
          calls |-> <<"getUnifiedEntry">>]
    ELSE [entries |-> MapSet(ents, buildPathHashDigest(filePath), d.entry),
          outcome |-> "entry", error |-> "", entry |-> d.entry,
          calls |-> <<"getUnifiedEntry">>]

\* upsertUnifiedFile recording a file over whatever is cached
upsertUnifiedFileOverwrites(ents, filePath, d) ==
    LET filePathHashDigest == buildPathHashDigest(filePath)
    IN  IF ~MapHas(ents, filePathHashDigest) /\ ~d.ok
        THEN Threw(ents, "getUnifiedEntry")
        ELSE IF ~MapHas(ents, filePathHashDigest) /\ d.entry.kind # "file"
        THEN [entries |-> ents, outcome |-> "null", error |-> "", entry |-> NoEntry,
              calls |-> <<"getUnifiedEntry">>]
        ELSE [entries |-> MapSet(ents, filePathHashDigest, Entry("file", filePath)),
              outcome |-> "entry", error |-> "", entry |-> Entry("file", filePath),
              calls |-> IF MapHas(ents, filePathHashDigest) THEN <<>>
                        ELSE <<"getUnifiedEntry">>]

upsertUnifiedFile(ents, filePath, d) ==
    LET filePathHashDigest == buildPathHashDigest(filePath)
    IN  IF ~MapHas(ents, filePathHashDigest)
        THEN IF ~d.ok
             THEN Threw(ents, "getUnifiedEntry")
             ELSE IF d.entry.kind # "file"
             THEN [entries |-> ents, outcome |-> "null", error |-> "", entry |-> NoEntry,
                   calls |-> <<"getUnifiedEntry">>]
             ELSE [entries |-> MapSet(ents, filePathHashDigest, d.entry),
                   outcome |-> "entry", error |-> "", entry |-> d.entry,
                   calls |-> <<"getUnifiedEntry">>]
        ELSE [entries |-> ents, outcome |-> "entry", error |-> "",
              entry |-> ents[filePathHashDigest], calls |-> <<>>]

\* d1 answers the describe call of upsertUnifiedDirectory, d2 the one of upsertUnifiedFile
upsertUnifiedEntry(ents, path, d1, d2) ==
    LET unifiedDirectory == upsertUnifiedDirectory(ents, path, d1)
    IN  IF unifiedDirectory.outcome # "null"
        THEN unifiedDirectory
        ELSE LET unifiedFile == upsertUnifiedFile(unifiedDirectory.entries, path, d2)
             IN  [unifiedFile EXCEPT !.calls = unifiedDirectory.calls \o @]

\* the forEach of readDirectory over the backing listing, from its i-th entry on
RECURSIVE RecordListing(_, _, _, _, _)
RecordListing(ents, df, directoryPathHashDigest, unifiedEntries, i) ==
    IF i > Len(unifiedEntries)
    THEN [entries |-> ents, directoryFiles |-> df]
    ELSE LET unifiedEntry == unifiedEntries[i]
             pathHashDigest == buildPathHashDigest(unifiedEntry.path)
         IN  IF unifiedEntry.kind \in {"directory", "file"}
             THEN RecordListing(MapSet(ents, pathHashDigest, unifiedEntry),
                                LeftRightUpsert(df, directoryPathHashDigest, pathHashDigest),
                                directoryPathHashDigest, unifiedEntries, i + 1)
             ELSE RecordListing(ents, df, directoryPathHashDigest, unifiedEntries, i + 1)

\* the paths of the right hashes that have an Entry, in order
RECURSIVE PathsOf(_, _)
PathsOf(ents, hashes) ==
    IF hashes = <<>> THEN <<>>
    ELSE IF MapHas(ents, Head(hashes))
         THEN <<ents[Head(hashes)].path>> \o PathsOf(ents, Tail(hashes))
         ELSE PathsOf(ents, Tail(hashes))

\* readDirectory answering with the paths of the current backing listing only
readDirectoryCurrentOnly(ents, df, directoryPath, l) ==
    LET directoryPathHashDigest == buildPathHashDigest(directoryPath)
    IN  IF ~l.ok
        THEN [entries |-> ents, directoryFiles |-> df, outcome |-> "throws",
              error |-> "readDirectory", paths |-> <<>>, calls |-> <<"readDirectory">>]
        ELSE LET rec == RecordListing(ents, df, directoryPathHashDigest, l.entries, 1)
             IN  [entries |-> rec.entries, directoryFiles |-> rec.directoryFiles,
                  outcome |-> "ok", error |-> "",
                  paths |-> [i \in 1..Len(l.entries) |-> l.entries[i].path],
                  calls |-> <<"readDirectory">>]

\* l answers __readDirectory: l.ok = FALSE is a rejected promise
readDirectory(ents, df, directoryPath, l) ==
    LET directoryPathHashDigest == buildPathHashDigest(directoryPath)
    IN  IF ~l.ok
        THEN [entries |-> ents, directoryFiles |-> df, outcome |-> "throws",
              error |-> "readDirectory", paths |-> <<>>, calls |-> <<"readDirectory">>]
        ELSE LET rec == RecordListing(ents, df, directoryPathHashDigest, l.entries, 1)
             IN  [entries |-> rec.entries, directoryFiles |-> rec.directoryFiles,
                  outcome |-> "ok", error |-> "",
                  paths |-> PathsOf(rec.entries,
                               GetRightHashesByLeftHash(rec.directoryFiles,
                                                        directoryPathHashDigest)),
                  calls |-> <<"readDirectory">>]

AlreadyDeleted == "This file has already been deleted"

\* readFile with the deletion marker taken for "nothing staged"
readFileDeletedFallsThrough(chg, path, r) ==
    LET upsertedData == ChangesGet(chg, buildPathHashDigest(path))
    IN  IF upsertedData \in {Undefined, Null}
        THEN [outcome |-> "ok", error |-> "", text |-> IF r.ok THEN r.data ELSE "",
              calls |-> <<"readFile">>]
        ELSE [outcome |-> "ok", error |-> "", text |-> upsertedData, calls |-> <<>>]

\* readFile testing the staged data for truthiness instead of against undefined
readFileFalsyFallsThrough(chg, path, r) ==
    LET upsertedData == ChangesGet(chg, buildPathHashDigest(path))
    IN  IF upsertedData \in {Undefined, ""}
        THEN [outcome |-> "ok", error |-> "", text |-> IF r.ok THEN r.data ELSE "",
              calls |-> <<"readFile">>]
        ELSE IF upsertedData = Null
        THEN [outcome |-> "throws", error |-> AlreadyDeleted, text |-> "", calls |-> <<>>]
        ELSE [outcome |-> "ok", error |-> "", text |-> upsertedData, calls |-> <<>>]

\* readFile letting the rejection of the backing read through
readFileSurfacesFailure(chg, path, r) ==
    LET upsertedData == ChangesGet(chg, buildPathHashDigest(path))
    IN  IF upsertedData = Undefined
        THEN IF r.ok
             THEN [outcome |-> "ok", error |-> "", text |-> r.data, calls |-> <<"readFile">>]
             ELSE [outcome |-> "throws", error |-> "readFile", text |-> "",
                   calls |-> <<"readFile">>]
        ELSE IF upsertedData = Null
        THEN [outcome |-> "throws", error |-> AlreadyDeleted, text |-> "", calls |-> <<>>]
        ELSE [outcome |-> "ok", error |-> "", text |-> upsertedData, calls |-> <<>>]

\* r answers __readFile when it is asked: r.ok = FALSE is a rejected promise
readFile(chg, path, r) ==
    LET pathHashDigest == buildPathHashDigest(path)
        upsertedData == ChangesGet(chg, pathHashDigest)
    IN  IF upsertedData = Undefined
        THEN [outcome |-> "ok", error |-> "", text |-> IF r.ok THEN r.data ELSE "",
              calls |-> <<"readFile">>]
        ELSE IF upsertedData = Null
        THEN [outcome |-> "throws", error |-> AlreadyDeleted, text |-> "", calls |-> <<>>]
        ELSE [outcome |-> "ok", error |-> "", text |-> upsertedData, calls |-> <<>>]

\* isDirectory answering true for whatever is not known to be a file
isDirectoryUnlessFile(ents, directoryPath) ==
    LET directoryPathHashDigest == buildPathHashDigest(directoryPath)
    IN  ~(MapHas(ents, directoryPathHashDigest)
          /\ ents[directoryPathHashDigest].kind = "file")

isDirectory(ents, directoryPath) ==
    LET directoryPathHashDigest == buildPathHashDigest(directoryPath)
    IN  MapHas(ents, directoryPathHashDigest)
        /\ ents[directoryPathHashDigest].kind = "directory"

exists(ents, directoryPath) == MapHas(ents, buildPathHashDigest(directoryPath))

\* the forEach of getFilePaths over the glob answer
RECURSIVE RecordFiles(_, _)
RecordFiles(ents, paths) ==
    IF paths = <<>> THEN ents
    ELSE RecordFiles(MapSet(ents, buildPathHashDigest(Head(paths)), Entry("file", Head(paths))),
                     Tail(paths))

\* getFilePaths recording the glob answer and returning none of its paths
getFilePathsReturnsNone(ents, directoryPath, g) ==
    IF ~g.ok
    THEN [entries |-> ents, outcome |-> "throws", error |-> "glob", paths |-> <<>>,
          calls |-> <<"glob">>]
    ELSE [entries |-> RecordFiles(ents, g.paths), outcome |-> "ok", error |-> "",
          paths |-> <<>>, calls |-> <<"glob">>]

\* g answers __glob: g.ok = FALSE is a rejected promise
getFilePaths(ents, directoryPath, g) ==
    IF ~g.ok
    THEN [entries |-> ents, outcome |-> "throws", error |-> "glob", paths |-> <<>>,
          calls |-> <<"glob">>]
    ELSE [entries |-> RecordFiles(ents, g.paths), outcome |-> "ok", error |-> "",
          paths |-> g.paths, calls |-> <<"glob">>]

\* deleteFile dropping the path from the Entry Cache
deleteFileEvicts(ents, chg, filePath) ==
    LET pathHashDigest == buildPathHashDigest(filePath)
    IN  [entries |-> [k \in DOMAIN ents \ {pathHashDigest} |-> ents[k]],
         changes |-> ChangesSet(chg, pathHashDigest, Null)]

deleteFile(ents, chg, filePath) ==
    LET pathHashDigest == buildPathHashDigest(filePath)
    IN  [entries |-> MapSet(ents, pathHashDigest, Entry("file", filePath)),
         changes |-> ChangesSet(chg, pathHashDigest, Null)]

\* upsertData appending to the ledger instead of setting the key
upsertDataAppends(ents, chg, filePath, data) ==
    LET pathHashDigest == buildPathHashDigest(filePath)
    IN  [entries |-> MapSet(ents, pathHashDigest, Entry("file", filePath)),
         changes |-> Append(chg, [key |-> pathHashDigest, data |-> data])]

\* upsertData deleting the key before it sets it, which moves a staged key to the end
upsertDataMovesToEnd(ents, chg, filePath, data) ==
    LET pathHashDigest == buildPathHashDigest(filePath)
    IN  [entries |-> MapSet(ents, pathHashDigest, Entry("file", filePath)),
         changes |-> Append(SelectSeq(chg, LAMBDA c : c.key # pathHashDigest),
                            [key |-> pathHashDigest, data |-> data])]

upsertData(ents, chg, filePath, data) ==
    LET pathHashDigest == buildPathHashDigest(filePath)
    IN  [entries |-> MapSet(ents, pathHashDigest, Entry("file", filePath)),
         changes |-> ChangesSet(chg, pathHashDigest, data)]

\* the forEach of buildExternalFileCommands over __changes, in insertion order
RECURSIVE CommandsOf(_, _)
CommandsOf(ents, chg) ==
    IF chg = <<>> THEN <<>>
    ELSE LET hashDigest == Head(chg).key
             data == Head(chg).data
         IN  (IF ~MapHas(ents, hashDigest) THEN <<>>
              ELSE IF data = Null
              THEN <<[kind |-> "deleteFile", path |-> ents[hashDigest].path]>>
              ELSE <<[kind |-> "upsertFile", path |-> ents[hashDigest].path, data |-> data]>>)
             \o CommandsOf(ents, Tail(chg))

\* buildExternalFileCommands draining the ledger it reads
buildExternalFileCommandsDrains(ents, df, chg) ==
    [commands |-> CommandsOf(ents, chg), entries |-> ents, directoryFiles |-> df,
     changes |-> <<>>]

\* the result and the fields as the call leaves them (it writes none)
buildExternalFileCommands(ents, df, chg) ==
    [commands |-> CommandsOf(ents, chg), entries |-> ents, directoryFiles |-> df,
     changes |-> chg]

----------------------------------------------------------------------------
(* Commands and repomods *)

\* Options: the one option key the modelled repomods use
NoOptions == [index_html_data |-> Undefined]

\* a Command; the fields a kind does not carry are left at their defaults.  chain
\* places a command handleCommand was called with in the tree of calls: the chain of
\* the command whose handling issued it, followed by its number among the commands
\* that handling issued; issued counts the commands its own handling has issued.
Cmd(kind, path, options, data) ==
    [kind |-> kind, path |-> path, options |-> options, data |-> data,
     newPath |-> <<>>, chain |-> <<>>, issued |-> 0]

\* a moveFile or copyFile Command
CmdTo(kind, oldPath, newPath, options) ==
    [Cmd(kind, oldPath, options, "") EXCEPT !.newPath = newPath]

\* a Repomod with no includePatterns and no hooks
DefaultRepomod ==
    [includePatterns |-> Undefined, handleDirectory |-> Undefined,
     handleFile |-> Undefined, handleData |-> Undefined]

----------------------------------------------------------------------------
(* The collaborators' possible answers under Spec *)

\* __getUnifiedEntry(path): an Entry of any kind the backing store knows, or a rejection
DescribeAnswers(path) ==
    {[ok |-> TRUE, entry |-> Entry(k, path)] : k \in {"file", "directory", "other"}}
    \cup {[ok |-> FALSE, entry |-> NoEntry]}

ChildrenOf(path) == {q \in FacadePaths : Len(q) = Len(path) + 1 /\ IsPrefix(path, q)}
DescendantsOf(path) == {q \in FacadePaths : Len(q) > Len(path) /\ IsPrefix(path, q)}

\* __readDirectory(path): Entries for children of path, or a rejection
ListingAnswers(path) ==
    {[ok |-> TRUE, entries |-> l] :
        l \in BoundedSeq({Entry(k, q) : k \in {"file", "directory"}, q \in ChildrenOf(path)},
                         MaxListing)}
    \cup {[ok |-> FALSE, entries |-> <<>>]}

\* __readFile(path): a content, or a rejection
ReadAnswers == {[ok |-> TRUE, data |-> t] : t \in BackingData} \cup {[ok |-> FALSE, data |-> ""]}

\* __glob({currentWorkingDirectory: path, ...}): paths below path, or a rejection
GlobAnswers(path) ==
    {[ok |-> TRUE, paths |-> g] : g \in BoundedSeq(DescendantsOf(path), MaxGlob)}
    \cup {[ok |-> FALSE, paths |-> <<>>]}

----------------------------------------------------------------------------
(* Spec: the facade's public methods, called in any order *)

NoCall ==
    [op |-> "none", path |-> <<>>, data |-> "", prior |-> NoEntry, outcome |-> "",
     error |-> "", entry |-> NoEntry, text |-> "", answer |-> FALSE, calls |-> <<>>,
     listing |-> <<>>, paths |-> <<>>, commands |-> <<>>,
     read |-> [ok |-> FALSE, data |-> ""]]

\* a call of method op on path; prior is the Entry cached for path when it starts
Call(op, path) ==
    [NoCall EXCEPT !.op = op, !.path = path,
                   !.prior = IF MapHas(entries, buildPathHashDigest(path))
                             THEN entries[buildPathHashDigest(path)] ELSE NoEntry]

\* the history record of a stage: its kind and data, and the rank of the path among
\* the paths staged, by the time of their first stage
Stage(st, path, kind, data) ==
    [kind |-> kind, data |-> data,
     rank |-> IF path \in DOMAIN st THEN st[path].rank ELSE Cardinality(DOMAIN st) + 1]

\* the answers a call can meet: a collaborator that is not asked answers nothing
NoAnswer == [ok |-> FALSE, entry |-> NoEntry]
AsksDescribe(path) ==
    IF MapHas(entries, buildPathHashDigest(path)) THEN {NoAnswer} ELSE DescribeAnswers(path)
AsksDescribeAgain(path, d1) ==
    IF upsertUnifiedDirectory(entries, path, d1).outcome = "null"
    THEN DescribeAnswers(path) ELSE {NoAnswer}
AsksRead(path) ==
    IF ChangesHas(changes, buildPathHashDigest(path))
    THEN {[ok |-> FALSE, data |-> ""]} ELSE ReadAnswers

Init ==
    /\ entries = EmptyMap
    /\ directoryFiles = EmptyMap
    /\ changes = <<>>
    /\ lastOp = NoCall
    /\ staged = EmptyMap
    /\ listed = EmptyMap
    /\ backing = EmptyMap
    /\ repomod = DefaultRepomod
    /\ rootPath = <<>>
    /\ stack = <<>>
    /\ status = "idle"
    /\ result = <<>>
    /\ hookLog = <<>>

UpsertUnifiedEntry(path) ==
    \E d1 \in AsksDescribe(path) : \E d2 \in AsksDescribeAgain(path, d1) :
        LET r == upsertUnifiedEntry(entries, path, d1, d2)
        IN  /\ entries' = r.entries
            /\ lastOp' = [Call("upsertUnifiedEntry", path) EXCEPT
                              !.outcome = r.outcome, !.error = r.error,
                              !.entry = r.entry, !.calls = r.calls]
            /\ UNCHANGED <<directoryFiles, changes, staged, listed, runVars>>

UpsertUnifiedDirectory(path) ==
    \E d \in AsksDescribe(path) :
        LET r == upsertUnifiedDirectory(entries, path, d)
        IN  /\ entries' = r.entries
            /\ lastOp' = [Call("upsertUnifiedDirectory", path) EXCEPT
                              !.outcome = r.outcome, !.error = r.error,
                              !.entry = r.entry, !.calls = r.calls]
            /\ UNCHANGED <<directoryFiles, changes, staged, listed, runVars>>

UpsertUnifiedFile(path) ==
    \E d \in AsksDescribe(path) :
        LET r == upsertUnifiedFile(entries, path, d)
        IN  /\ entries' = r.entries
            /\ lastOp' = [Call("upsertUnifiedFile", path) EXCEPT
                              !.outcome = r.outcome, !.error = r.error,
                              !.entry = r.entry, !.calls = r.calls]
            /\ UNCHANGED <<directoryFiles, changes, staged, listed, runVars>>

ReadDirectory(path) ==
    \E l \in ListingAnswers(path) :
        LET r == readDirectory(entries, directoryFiles, path, l)
        IN  /\ entries' = r.entries
            /\ directoryFiles' = r.directoryFiles
            /\ lastOp' = [Call("readDirectory", path) EXCEPT
                              !.outcome = r.outcome, !.error = r.error,
                              !.listing = l.entries, !.paths = r.paths, !.calls = r.calls]
            /\ listed' = IF r.outcome = "ok"
                         THEN MapSet(listed, path,
                                     (IF path \in DOMAIN listed THEN listed[path] ELSE {})
                                     \cup Range(r.paths))
                         ELSE listed
            /\ UNCHANGED <<changes, staged, runVars>>

ReadFile(path) ==
    \E a \in AsksRead(path) :
        LET r == readFile(changes, path, a)
        IN  /\ lastOp' = [Call("readFile", path) EXCEPT
                              !.outcome = r.outcome, !.error = r.error,
                              !.text = r.text, !.calls = r.calls, !.read = a]
            /\ UNCHANGED <<entries, directoryFiles, changes, staged, listed, runVars>>

IsDirectory(path) ==
    /\ lastOp' = [Call("isDirectory", path) EXCEPT
                      !.outcome = "ok", !.answer = isDirectory(entries, path)]
    /\ UNCHANGED <<entries, directoryFiles, changes, staged, listed, runVars>>

Exists(path) ==
    /\ lastOp' = [Call("exists", path) EXCEPT
                      !.outcome = "ok", !.answer = exists(entries, path)]
    /\ UNCHANGED <<entries, directoryFiles, changes, staged, listed, runVars>>

GetFilePaths(path) ==
    \E g \in GlobAnswers(path) :
        LET r == getFilePaths(entries, path, g)
        IN  /\ entries' = r.entries
            /\ lastOp' = [Call("getFilePaths", path) EXCEPT
                              !.outcome = r.outcome, !.error = r.error,
                              !.paths = r.paths, !.calls = r.calls]
            /\ UNCHANGED <<directoryFiles, changes, staged, listed, runVars>>

DeleteFile(path) ==
    LET r == deleteFile(entries, changes, path)
    IN  /\ entries' = r.entries
        /\ changes' = r.changes
        /\ lastOp' = [Call("deleteFile", path) EXCEPT !.outcome = "ok"]
        /\ staged' = MapSet(staged, path, Stage(staged, path, "deleteFile", Null))
        /\ UNCHANGED <<directoryFiles, listed, runVars>>

UpsertData(path, data) ==
    LET r == upsertData(entries, changes, path, data)
    IN  /\ entries' = r.entries
        /\ changes' = r.changes
        /\ lastOp' = [Call("upsertData", path) EXCEPT !.outcome = "ok", !.data = data]
        /\ staged' = MapSet(staged, path, Stage(staged, path, "upsertData", data))
        /\ UNCHANGED <<directoryFiles, listed, runVars>>

BuildExternalFileCommands ==
    LET r == buildExternalFileCommands(entries, directoryFiles, changes)
    IN  /\ entries' = r.entries
        /\ directoryFiles' = r.directoryFiles
        /\ changes' = r.changes
        /\ lastOp' = [NoCall EXCEPT !.op = "buildExternalFileCommands", !.outcome = "ok",
                                    !.commands = r.commands]
        /\ UNCHANGED <<staged, listed, runVars>>

Next ==
    \/ \E path \in FacadePaths : UpsertUnifiedEntry(path)
    \/ \E path \in FacadePaths : UpsertUnifiedDirectory(path)
    \/ \E path \in FacadePaths : UpsertUnifiedFile(path)
    \/ \E path \in FacadePaths : ReadDirectory(path)
    \/ \E path \in FacadePaths : ReadFile(path)
    \/ \E path \in FacadePaths : IsDirectory(path)
    \/ \E path \in FacadePaths : Exists(path)
    \/ \E path \in FacadePaths : GetFilePaths(path)
    \/ \E path \in FacadePaths : DeleteFile(path)
    \/ \E path \in FacadePaths, data \in StageData : UpsertData(path, data)
    \/ BuildExternalFileCommands

Spec == Init /\ [][Next]_vars

----------------------------------------------------------------------------
(* SpecRun: one executeRepomod run over a fixed backing store *)

Dir == [kind |-> "directory", data |-> ""]
File(data) == [kind |-> "file", data |-> data]
Other == [kind |-> "other", data |-> ""]

\* the volume the source's test builds
TestTree ==
    (<<>> :> Dir)
    @@ (<<"test">> :> Dir)
    @@ (<<"test", "index.html">> :> File("aaa"))
    @@ (<<"test", "Document.tsx">> :> File("bbb"))
    @@ (<<"a">> :> Dir)
    @@ (<<"a", "b">> :> Dir)
    @@ (<<"a", "b", "c">> :> Dir)
    @@ (<<"a", "b", "c", "Document.tsx">> :> File("bbb"))
    @@ (<<"a", "b", "c", "index.html">> :> File("bbb"))

\* the same with an index.html that has no Document.tsx sibling
LoneTree == TestTree @@ (<<"a", "index.html">> :> File("ccc"))

\* a volume with an entity that is neither a file nor a directory
OtherTree == (<<>> :> Dir) @@ (<<"sock">> :> Other)

\* the repomod of the source's test, with the glob it declares
TestRepomod(pattern) ==
    [includePatterns |-> pattern, handleDirectory |-> Undefined,
     handleFile |-> "test", handleData |-> "test"]

\* a repomod whose file hook reads each selected file and marks it for deletion
RetireRepomod ==
    [includePatterns |-> "**/index.html", handleDirectory |-> Undefined,
     handleFile |-> "retire", handleData |-> Undefined]

\* a repomod whose file hook moves each file aside, keeps a copy and deletes it
MoveRepomod ==
    [includePatterns |-> Undefined, handleDirectory |-> Undefined,
     handleFile |-> "move", handleData |-> Undefined]

\* a repomod whose directory hook issues both traversal commands for every child,
\* leaving the test of the child's kind to handleCommand
BothRepomod ==
    [includePatterns |-> Undefined, handleDirectory |-> "both",
     handleFile |-> Undefined, handleData |-> Undefined]

Repomods ==
    {TestRepomod("**/index.html"), TestRepomod("**/*.index.html"), DefaultRepomod,
     RetireRepomod, MoveRepomod, BothRepomod}

\* the runs explored: a backing store and the root path executeRepomod is given
Scenarios ==
    {[backing |-> t, rootPath |-> <<>>] : t \in {TestTree, LoneTree}}
    \cup {[backing |-> TestTree, rootPath |-> <<"test", "index.html">>],
          [backing |-> TestTree, rootPath |-> <<"missing">>],
          [backing |-> OtherTree, rootPath |-> <<"sock">>]}

Orderings(S) ==
    {s \in [1..Cardinality(S) -> S] : \A i, j \in 1..Cardinality(S) : s[i] = s[j] => i = j}

\* PathAPI
getDirname(path) == IF path = <<>> THEN <<>> ELSE SubSeq(path, 1, Len(path) - 1)
getBasename(path) == IF path = <<>> THEN "" ELSE path[Len(path)]
joinPaths(path, name) == Append(path, name)

\* describe-path over the backing store: a missing path is a rejection
Describe(path) ==
    IF path \in DOMAIN backing
    THEN [ok |-> TRUE, entry |-> Entry(backing[path].kind, path)]
    ELSE [ok |-> FALSE, entry |-> NoEntry]

\* list-directory over the backing store: the file and directory children, in any order
Listings(path) ==
    IF path \in DOMAIN backing /\ backing[path].kind = "directory"
    THEN {[ok |-> TRUE, entries |-> [i \in 1..Len(o) |-> Entry(backing[o[i]].kind, o[i])]] :
            o \in Orderings({q \in DOMAIN backing :
                                /\ Len(q) = Len(path) + 1
                                /\ IsPrefix(path, q)
                                /\ backing[q].kind \in {"file", "directory"}})}
    ELSE {[ok |-> FALSE, entries |-> <<>>]}

\* read-file over the backing store
ReadBacking(path) ==
    IF path \in DOMAIN backing /\ backing[path].kind = "file"
    THEN [ok |-> TRUE, data |-> backing[path].data]
    ELSE [ok |-> FALSE, data |-> ""]

\* the file names the include pattern selects
GlobMatch(pattern, name) ==
    CASE pattern = "**/index.html" -> name = "index.html"
      [] pattern = "**/*.index.html" -> name \in {"home.index.html"}
      [] OTHER -> FALSE

\* glob over the backing store: the matching files below directoryPath, in any order
Globs(directoryPath, pattern) ==
    {[ok |-> TRUE, paths |-> o] :
        o \in Orderings({q \in DOMAIN backing :
                            /\ Len(q) > Len(directoryPath)
                            /\ IsPrefix(directoryPath, q)
                            /\ backing[q].kind = "file"
                            /\ GlobMatch(pattern, getBasename(q))})}

\* defaultHandleDirectory with the isDirectory test inverted
defaultHandleDirectoryInverted(ents, df, directoryPath, options, l) ==
    LET r == readDirectory(ents, df, directoryPath, l)
    IN  [entries |-> r.entries, directoryFiles |-> r.directoryFiles,
         outcome |-> r.outcome, error |-> r.error,
         commands |-> [i \in 1..Len(r.paths) |->
                          IF ~isDirectory(r.entries, r.paths[i])
                          THEN Cmd("handleDirectory", r.paths[i], options, "")
                          ELSE Cmd("handleFile", r.paths[i], options, "")]]

\* l answers the __readDirectory call of api.readDirectory
defaultHandleDirectory(ents, df, directoryPath, options, l) ==
    LET r == readDirectory(ents, df, directoryPath, l)
    IN  [entries |-> r.entries, directoryFiles |-> r.directoryFiles,
         outcome |-> r.outcome, error |-> r.error,
         commands |-> [i \in 1..Len(r.paths) |->
                          IF isDirectory(r.entries, r.paths[i])
                          THEN Cmd("handleDirectory", r.paths[i], options, "")
                          ELSE Cmd("handleFile", r.paths[i], options, "")]]

\* defaultHandleFile returning a deleteFile command
defaultHandleFileDeletes(path, options) == <<Cmd("deleteFile", path, options, "")>>

defaultHandleFile(path, options) == <<Cmd("upsertFile", path, options, "")>>

defaultHandleData == Cmd("noop", <<>>, NoOptions, "")

\* the handleFile hook of the test repomod; a answers the __readFile call of api.readFile
testHandleFile(ents, chg, path, options, a) ==
    IF getBasename(path) # "index.html"
    THEN [outcome |-> "ok", error |-> "", commands |-> <<>>]
    ELSE LET index_html_path == path
             dirname == getDirname(index_html_path)
             document_tsx_path == joinPaths(dirname, "Document.tsx")
         IN  IF ~exists(ents, document_tsx_path)
             THEN [outcome |-> "ok", error |-> "", commands |-> <<>>]
             ELSE LET index_html_data == readFile(chg, path, a)
                  IN  IF index_html_data.outcome = "throws"
                      THEN [outcome |-> "throws", error |-> index_html_data.error,
                            commands |-> <<>>]
                      ELSE [outcome |-> "ok", error |-> "",
                            commands |->
                              <<Cmd("deleteFile", index_html_path, options, ""),
                                Cmd("upsertFile", document_tsx_path,
                                    [options EXCEPT !.index_html_data = index_html_data.text],
                                    "")>>]

\* the handleFile hook of RetireRepomod; a answers the __readFile call of api.readFile
retireHandleFile(chg, path, options, a) ==
    LET data == readFile(chg, path, a)
    IN  IF data.outcome = "throws"
        THEN [outcome |-> "throws", error |-> data.error, commands |-> <<>>]
        ELSE [outcome |-> "ok", error |-> "",
              commands |-> <<Cmd("deleteFile", path, options, "")>>]

\* the handleFile hook of MoveRepomod
moveHandleFile(path, options) ==
    [outcome |-> "ok", error |-> "",
     commands |-> <<CmdTo("moveFile", path, joinPaths(getDirname(path), "moved"), options),
                    CmdTo("copyFile", path, joinPaths(getDirname(path), "copied"), options),
                    Cmd("deleteFile", path, options, "")>>]

\* the handleDirectory hook of BothRepomod; l answers the __readDirectory call
bothHandleDirectory(ents, df, directoryPath, options, l) ==
    LET r == readDirectory(ents, df, directoryPath, l)
    IN  [entries |-> r.entries, directoryFiles |-> r.directoryFiles,
         outcome |-> r.outcome, error |-> r.error,
         commands |-> [i \in 1..(2 * Len(r.paths)) |->
                          IF i % 2 = 1
                          THEN Cmd("handleFile", r.paths[(i + 1) \div 2], options, "")
                          ELSE Cmd("handleDirectory", r.paths[i \div 2], options, "")]]

\* the handleData hook of the test repomod
testHandleData(path, data, options) ==
    Cmd("upsertData", path, NoOptions,
        IF options.index_html_data = Undefined THEN "" ELSE options.index_html_data)

\* repomod.handleDirectory ?? defaultHandleDirectory, called
handleDirectoryHook(r, ents, df, directoryPath, options, l) ==
    IF r.handleDirectory = Undefined
    THEN defaultHandleDirectory(ents, df, directoryPath, options, l)
    ELSE bothHandleDirectory(ents, df, directoryPath, options, l)

\* repomod.handleFile ?? defaultHandleFile, called
handleFileHook(r, ents, chg, path, options, a) ==
    CASE r.handleFile = Undefined ->
            [outcome |-> "ok", error |-> "", commands |-> defaultHandleFile(path, options)]
      [] r.handleFile = "test" -> testHandleFile(ents, chg, path, options, a)
      [] r.handleFile = "retire" -> retireHandleFile(chg, path, options, a)
      [] r.handleFile = "move" -> moveHandleFile(path, options)

\* repomod.handleData ?? defaultHandleData, called
handleDataHook(r, path, data, options) ==
    IF r.handleData = Undefined THEN defaultHandleData
    ELSE testHandleData(path, data, options)

\* await taking a rejected promise for a resolved one
RejectsNever(r) == FALSE

\* await r, in handleCommand or executeRepomod, throws: the promise r was rejected
Rejects(r) == r.outcome = "throws"

\* a hook invocation or a stage made while handling command
Event(event, command) ==
    [event |-> event, path |-> command.path, chain |-> command.chain,
     issued |-> command.issued]

\* handleCommand awaiting the commands its handling issued before the rest is handled
DispatchDeferred(command, commands, rest) ==
    rest \o [i \in 1..Len(commands) |->
                [commands[i] EXCEPT !.chain = Append(command.chain, command.issued + i),
                                    !.issued = 0]]

\* for (const command of commands) await handleCommand(api, repomod, command): the
\* commands issued are handled, in order, before whatever is left to handle (rest)
Dispatch(command, commands, rest) ==
    [i \in 1..Len(commands) |->
        [commands[i] EXCEPT !.chain = Append(command.chain, command.issued + i),
                            !.issued = 0]]
    \o rest

\* executeRepomod taking a rejected upsertFacadeEntry for "no entry"
executeRepomodSwallows(r, path, options) ==
    IF r.outcome \in {"throws", "null"} THEN [status |-> "returned", stack |-> <<>>]
    ELSE [status |-> "running",
          stack |-> <<Cmd(IF r.entry.kind = "directory" THEN "handleDirectory" ELSE "handleFile",
                          path, options, "")>>]

\* executeRepomod up to its first handleCommand: r is what upsertFacadeEntry(path) gave
executeRepomod(r, path, options) ==
    IF r.outcome = "throws" THEN [status |-> "threw", stack |-> <<>>]
    ELSE IF r.outcome = "null" THEN [status |-> "returned", stack |-> <<>>]
    ELSE [status |-> "running",
          stack |-> <<Cmd(IF r.entry.kind = "directory" THEN "handleDirectory" ELSE "handleFile",
                          path, options, "")>>]

InitRun ==
    /\ entries = EmptyMap
    /\ directoryFiles = EmptyMap
    /\ changes = <<>>
    /\ lastOp = NoCall
    /\ staged = EmptyMap
    /\ listed = EmptyMap
    /\ \E s \in Scenarios : backing = s.backing /\ rootPath = s.rootPath
    /\ repomod \in Repomods
    /\ stack = <<>>
    /\ status = "idle"
    /\ result = <<>>
    /\ hookLog = <<>>

ExecuteRepomod ==
    /\ status = "idle"
    /\ LET r == upsertUnifiedEntry(entries, rootPath, Describe(rootPath), Describe(rootPath))
           e == executeRepomod(r, rootPath, NoOptions)
       IN  /\ entries' = r.entries
           /\ status' = e.status
           /\ stack' = e.stack
    /\ UNCHANGED <<directoryFiles, changes, historyVars, backing, repomod, rootPath,
                   result, hookLog>>

\* handleCommand, kind handleDirectory, up to the upsertFacadeDirectory call: the
\* include-pattern loop; its handleFile commands run before the rest of the branch
HandleDirectory ==
    /\ status = "running" /\ stack # <<>> /\ Head(stack).kind = "handleDirectory"
    /\ LET command == Head(stack)
           rest == [command EXCEPT !.kind = "handleDirectoryRest"]
       IN  IF repomod.includePatterns # Undefined
           THEN \E g \in Globs(command.path, repomod.includePatterns) :
                    LET r == getFilePaths(entries, command.path, g)
                    IN  /\ entries' = r.entries
                        /\ stack' = Dispatch(command,
                                              [i \in 1..Len(r.paths) |->
                                                  Cmd("handleFile", r.paths[i],
                                                      command.options, "")],
                                              <<[rest EXCEPT !.issued = Len(r.paths)]>>
                                              \o Tail(stack))
           ELSE /\ entries' = entries
                /\ stack' = <<rest>> \o Tail(stack)
    /\ UNCHANGED <<directoryFiles, changes, historyVars, backing, repomod, rootPath,
                   status, result, hookLog>>

\* handleCommand, kind handleDirectory, from the upsertFacadeDirectory call on
HandleDirectoryRest ==
    /\ status = "running" /\ stack # <<>> /\ Head(stack).kind = "handleDirectoryRest"
    /\ LET command == Head(stack)
           facadeEntry == upsertUnifiedDirectory(entries, command.path, Describe(command.path))
       IN  IF Rejects(facadeEntry)
           THEN /\ status' = "threw"
                /\ UNCHANGED <<entries, directoryFiles, stack, hookLog>>
           ELSE IF facadeEntry.outcome = "null"
           THEN /\ stack' = Tail(stack)
                /\ entries' = facadeEntry.entries
                /\ UNCHANGED <<directoryFiles, status, hookLog>>
           ELSE \E l \in Listings(command.path) :
                    \* h: what the one call of the hook resolved to
                    \E h \in {handleDirectoryHook(repomod, facadeEntry.entries, directoryFiles,
                                                 command.path, command.options, l)} :
                        /\ hookLog' = Append(hookLog, Event("handleDirectory", command))
                        /\ entries' = h.entries
                        /\ directoryFiles' = h.directoryFiles
                        /\ IF Rejects(h)
                           THEN status' = "threw" /\ stack' = stack
                           ELSE /\ status' = status
                                /\ stack' = Dispatch(command, h.commands, Tail(stack))
    /\ UNCHANGED <<changes, historyVars, backing, repomod, rootPath, result>>

\* handleCommand, kind handleFile
HandleFile ==
    /\ status = "running" /\ stack # <<>> /\ Head(stack).kind = "handleFile"
    /\ LET command == Head(stack)
           facadeEntry == upsertUnifiedFile(entries, command.path, Describe(command.path))
       IN  IF Rejects(facadeEntry)
           THEN /\ status' = "threw"
                /\ UNCHANGED <<entries, stack, hookLog>>
           ELSE IF facadeEntry.outcome = "null"
           THEN /\ stack' = Tail(stack)
                /\ entries' = facadeEntry.entries
                /\ UNCHANGED <<status, hookLog>>
           ELSE LET h == handleFileHook(repomod, facadeEntry.entries, changes, command.path,
                                        command.options, ReadBacking(command.path))
                IN  /\ hookLog' = Append(hookLog, Event("handleFile", command))
                    /\ entries' = facadeEntry.entries
                    /\ IF Rejects(h)
                       THEN status' = "threw" /\ stack' = stack
                       ELSE /\ status' = status
                            /\ stack' = Dispatch(command, h.commands, Tail(stack))
    /\ UNCHANGED <<directoryFiles, changes, historyVars, backing, repomod, rootPath, result>>

\* handleCommand, kind upsertFile
HandleUpsertFile ==
    /\ status = "running" /\ stack # <<>> /\ Head(stack).kind = "upsertFile"
    /\ LET command == Head(stack)
           data == readFile(changes, command.path, ReadBacking(command.path))
       IN  IF Rejects(data)
           THEN /\ status' = "threw"
                /\ UNCHANGED <<stack, hookLog>>
           ELSE LET dataCommand == handleDataHook(repomod, command.path, data.text,
                                                  command.options)
                IN  /\ hookLog' = Append(hookLog, Event("handleData", command))
                    /\ stack' = Dispatch(command, <<dataCommand>>, Tail(stack))
                    /\ status' = status
    /\ UNCHANGED <<facadeVars, historyVars, backing, repomod, rootPath, result>>

\* handleCommand, kind deleteFile
HandleDeleteFile ==
    /\ status = "running" /\ stack # <<>> /\ Head(stack).kind = "deleteFile"
    /\ LET command == Head(stack)
           r == deleteFile(entries, changes, command.path)
       IN  /\ entries' = r.entries
           /\ changes' = r.changes
           /\ staged' = MapSet(staged, command.path,
                               Stage(staged, command.path, "deleteFile", Null))
           /\ hookLog' = Append(hookLog, Event("deleteFile", command))
    /\ stack' = Tail(stack)
    /\ UNCHANGED <<directoryFiles, lastOp, listed, backing, repomod, rootPath, status,
                   result>>

\* handleCommand, kind upsertData
HandleUpsertData ==
    /\ status = "running" /\ stack # <<>> /\ Head(stack).kind = "upsertData"
    /\ LET command == Head(stack)
           r == upsertData(entries, changes, command.path, command.data)
       IN  /\ entries' = r.entries
           /\ changes' = r.changes
           /\ staged' = MapSet(staged, command.path,
                               Stage(staged, command.path, "upsertData", command.data))
           /\ hookLog' = Append(hookLog, Event("upsertData", command))
    /\ stack' = Tail(stack)
    /\ UNCHANGED <<directoryFiles, lastOp, listed, backing, repomod, rootPath, status,
                   result>>

\* handleCommand throwing for a kind none of its branches matches
HandleOtherThrows ==
    /\ status = "running" /\ stack # <<>>
    /\ Head(stack).kind \in {"moveFile", "copyFile", "noop"}
    /\ status' = "threw"
    /\ UNCHANGED <<facadeVars, historyVars, backing, repomod, rootPath, stack, result,
                   hookLog>>

\* handleCommand, a kind none of its branches matches
HandleOther ==
    /\ status = "running" /\ stack # <<>>
    /\ Head(stack).kind \in {"moveFile", "copyFile", "noop"}
    /\ stack' = Tail(stack)
    /\ UNCHANGED <<facadeVars, historyVars, backing, repomod, rootPath, status, result,
                   hookLog>>

\* executeRepomod after its handleCommand has resolved
Return ==
    /\ status = "running" /\ stack = <<>>
    /\ LET r == buildExternalFileCommands(entries, directoryFiles, changes)
       IN  /\ result' = r.commands
           /\ entries' = r.entries
           /\ directoryFiles' = r.directoryFiles
           /\ changes' = r.changes
    /\ status' = "returned"
    /\ UNCHANGED <<historyVars, backing, repomod, rootPath, stack, hookLog>>

NextRun ==
    \/ ExecuteRepomod
    \/ HandleDirectory
    \/ HandleDirectoryRest
    \/ HandleFile
    \/ HandleUpsertFile
    \/ HandleDeleteFile
    \/ HandleUpsertData
    \/ HandleOther
    \/ Return

SpecRun == InitRun /\ [][NextRun]_vars

\* the run with its scheduling: a step that can be taken is taken (every await of the
\* run is on a collaborator or hook that settles)
FairSpecRun == SpecRun /\ WF_vars(NextRun)

----------------------------------------------------------------------------
(* Claims about the facade; they are stated of Spec *)

EntryOf(path) ==
    IF MapHas(entries, buildPathHashDigest(path))
    THEN entries[buildPathHashDigest(path)] ELSE NoEntry

\* C1: when path p is cached as a file, upsertUnifiedDirectory(p) returns null and
\* leaves the cached Entry of p as it was; when p is cached as a directory,
\* upsertUnifiedFile(p) returns null and leaves the cached Entry as it was.
C1_KindMismatchRejected ==
    /\ (lastOp.op = "upsertUnifiedDirectory" /\ lastOp.prior.kind = "file")
          => (lastOp.outcome = "null" /\ EntryOf(lastOp.path) = lastOp.prior)
    /\ (lastOp.op = "upsertUnifiedFile" /\ lastOp.prior.kind = "directory")
          => (lastOp.outcome = "null" /\ EntryOf(lastOp.path) = lastOp.prior)

\* the command buildExternalFileCommands owes to the last stage of path
CommandFor(path) ==
    IF staged[path].kind = "deleteFile"
    THEN [kind |-> "deleteFile", path |-> path]
    ELSE [kind |-> "upsertFile", path |-> path, data |-> staged[path].data]

\* C2: what buildExternalFileCommands returns holds exactly one command for every
\* path staged by deleteFile or upsertData and none for any other path; the command
\* is deleteFile{p} when the last stage of p was deleteFile(p) and upsertFile{p, d}
\* when it was upsertData(p, d).
C2_LastWriteWins ==
    lastOp.op = "buildExternalFileCommands" =>
        /\ \A p \in DOMAIN staged :
              Cardinality({i \in 1..Len(lastOp.commands) : lastOp.commands[i].path = p}) = 1
        /\ \A i \in 1..Len(lastOp.commands) :
              /\ lastOp.commands[i].path \in DOMAIN staged
              /\ lastOp.commands[i] = CommandFor(lastOp.commands[i].path)

\* C2's case: commands built with one path staged for deletion and one given data
C2_Witness ==
    /\ lastOp.op = "buildExternalFileCommands"
    /\ Len(lastOp.commands) = 2
    /\ \E p \in DOMAIN staged : staged[p].kind = "upsertData" /\ staged[p].data = "X"
    /\ \E p \in DOMAIN staged : staged[p].kind = "deleteFile"

\* C3: when the last stage of p is deleteFile(p), readFile(p) throws "already
\* deleted" and does not call the backing read.
C3_SoftDelete ==
    (/\ lastOp.op = "readFile"
     /\ lastOp.path \in DOMAIN staged
     /\ staged[lastOp.path].kind = "deleteFile")
        => /\ lastOp.outcome = "throws"
           /\ lastOp.error = AlreadyDeleted
           /\ lastOp.calls = <<>>

\* C3's case: a read of a path staged for deletion
C3_Witness ==
    /\ lastOp.op = "readFile"
    /\ lastOp.path \in DOMAIN staged
    /\ staged[lastOp.path].kind = "deleteFile"
    /\ lastOp.outcome = "throws"

\* C4: when the last stage of p is upsertData(p, X), readFile(p) returns X and does
\* not call the backing read.
C4_RoundTrip ==
    (/\ lastOp.op = "readFile"
     /\ lastOp.path \in DOMAIN staged
     /\ staged[lastOp.path].kind = "upsertData")
        => /\ lastOp.outcome = "ok"
           /\ lastOp.text = staged[lastOp.path].data
           /\ lastOp.calls = <<>>

\* C4's case: a read of a path given the data X
C4_Witness ==
    /\ lastOp.op = "readFile"
    /\ lastOp.path \in DOMAIN staged
    /\ staged[lastOp.path].kind = "upsertData"
    /\ lastOp.text = "X"

\* C5: every child an earlier readDirectory(d) returned is returned by every later
\* readDirectory(d), and so is every child of the current backing listing.
C5_StickyMembership ==
    (lastOp.op = "readDirectory" /\ lastOp.outcome = "ok")
        => /\ listed[lastOp.path] \subseteq Range(lastOp.paths)
           /\ {e.path : e \in Range(lastOp.listing)} \subseteq Range(lastOp.paths)

\* C5's case: the backing listing omits a child an earlier listing had, and the
\* child is returned all the same
C5_Witness ==
    /\ lastOp.op = "readDirectory" /\ lastOp.outcome = "ok"
    /\ lastOp.listing = <<>>
    /\ lastOp.paths # <<>>

UpsertOps == {"upsertUnifiedEntry", "upsertUnifiedDirectory", "upsertUnifiedFile"}

\* C6 as stated: after a call upsertUnifiedFile(p) that completed, a second
\* upsertUnifiedFile(p) does not call the backing describe-path and returns the same
\* result.
C6_Original ==
    [][(/\ lastOp.op = "upsertUnifiedFile" /\ lastOp.outcome \in {"entry", "null"}
        /\ lastOp'.op = "upsertUnifiedFile" /\ lastOp'.path = lastOp.path)
          => (/\ lastOp'.calls = <<>>
              /\ lastOp'.outcome = lastOp.outcome
              /\ lastOp'.entry = lastOp.entry)]_vars

\* C6, amended: after a call upsertUnifiedFile(p) that returned an Entry, a second
\* upsertUnifiedFile(p) does not call the backing describe-path and returns the same
\* Entry.
C6_ReadThroughCaching ==
    [][(/\ lastOp.op = "upsertUnifiedFile" /\ lastOp.outcome = "entry"
        /\ lastOp'.op = "upsertUnifiedFile" /\ lastOp'.path = lastOp.path)
          => (/\ lastOp'.calls = <<>>
              /\ lastOp'.outcome = "entry"
              /\ lastOp'.entry = lastOp.entry)]_vars

\* C6's case: upsertUnifiedFile on a path cached as a file answers from the cache
C6_Witness ==
    /\ lastOp.op = "upsertUnifiedFile"
    /\ lastOp.prior.kind = "file"
    /\ lastOp.outcome = "entry" /\ lastOp.entry = lastOp.prior
    /\ lastOp.calls = <<>>

\* C7 as stated: under every facade operation a key recorded as a directory is never
\* later recorded as a file, and a key recorded as a file never as a directory.
C7_Original ==
    [][\A k \in DOMAIN entries :
          k \in DOMAIN entries' /\ entries'[k].kind = entries[k].kind]_vars

\* C7, amended: upsertUnifiedEntry, upsertUnifiedDirectory and upsertUnifiedFile never
\* change the Entry recorded for any key; deleteFile and upsertData record their path
\* as a file whatever was cached for it, and so does getFilePaths for every path it
\* returns; readDirectory records every listed child with the kind the listing gives.
C7_UpsertsKeepKind ==
    [][/\ lastOp'.op \in UpsertOps =>
             \A k \in DOMAIN entries : k \in DOMAIN entries' /\ entries'[k] = entries[k]
       /\ lastOp'.op \in {"deleteFile", "upsertData"} =>
             entries'[buildPathHashDigest(lastOp'.path)] = Entry("file", lastOp'.path)
       /\ lastOp'.op = "getFilePaths" =>
             \A q \in Range(lastOp'.paths) :
                 entries'[buildPathHashDigest(q)] = Entry("file", q)
       /\ (lastOp'.op = "readDirectory" /\ lastOp'.listing # <<>>) =>
             entries'[buildPathHashDigest(lastOp'.listing[Len(lastOp'.listing)].path)]
                 = lastOp'.listing[Len(lastOp'.listing)]]_vars

\* C7's case: upsertUnifiedFile on a path cached as a directory leaves it a directory
C7_Witness ==
    /\ lastOp.op = "upsertUnifiedFile"
    /\ lastOp.prior.kind = "directory"
    /\ EntryOf(lastOp.path) = lastOp.prior

\* C9: buildExternalFileCommands leaves the Change Ledger, the Entry Cache and the
\* Directory Membership Index as they were, and a second call right after the first
\* returns the same commands.
C9_BuildIsIdempotent ==
    [][lastOp'.op = "buildExternalFileCommands" =>
          /\ entries' = entries /\ directoryFiles' = directoryFiles /\ changes' = changes
          /\ lastOp.op = "buildExternalFileCommands" => lastOp'.commands = lastOp.commands]_vars

\* C9's case: commands were built from a ledger that holds stages, and it still holds them
C9_Witness ==
    /\ lastOp.op = "buildExternalFileCommands"
    /\ lastOp.commands # <<>>
    /\ Len(changes) = Len(lastOp.commands)

\* C11: exists(p) and isDirectory(p) call no backing collaborator and leave the Entry
\* Cache, the Directory Membership Index and the Change Ledger as they were; no key
\* ever leaves the Entry Cache, so a key absent from it was never put into it, and for
\* a path whose key is absent both answer false.
C11_UnobservedPaths ==
    [][/\ DOMAIN entries \subseteq DOMAIN entries'
       /\ lastOp'.op \in {"exists", "isDirectory"} =>
             /\ lastOp'.calls = <<>>
             /\ entries' = entries /\ directoryFiles' = directoryFiles /\ changes' = changes
             /\ ~MapHas(entries, buildPathHashDigest(lastOp'.path))
                   => lastOp'.answer = FALSE]_vars

\* C11's case: isDirectory answers false for a path never observed, below a
\* directory that has been
C11_Witness ==
    /\ lastOp.op = "isDirectory" /\ lastOp.path = <<"d", "a">>
    /\ lastOp.prior = NoEntry /\ lastOp.answer = FALSE
    /\ EntryOf(<<"d">>).kind = "directory"

StagedForDeletion(st, p) == p \in DOMAIN st /\ st[p].kind = "deleteFile"

\* the keys recorded as children of directory d
ChildKeys(d) == Range(GetRightHashesByLeftHash(directoryFiles, buildPathHashDigest(d)))

\* C19: right after deleteFile(p), exists(p) is true and isDirectory(p) is false; as
\* long as p is staged for deletion exists(p) stays true, and isDirectory(p) stays false
\* under every operation but a readDirectory; when p is staged for deletion and
\* recorded as a child of d, readDirectory(d) returns p, and what defaultHandleDirectory
\* returns for d holds a handleFile command for p whenever the listing does not give p
\* as a directory.
C19_DeletionDoesNotHide ==
    [][/\ lastOp'.op = "deleteFile" =>
             exists(entries', lastOp'.path) /\ ~isDirectory(entries', lastOp'.path)
       /\ \A p \in FacadePaths :
             /\ StagedForDeletion(staged', p) => exists(entries', p)
             /\ (/\ StagedForDeletion(staged, p) /\ ~isDirectory(entries, p)
                 /\ lastOp'.op # "readDirectory") => ~isDirectory(entries', p)
             /\ \A d \in FacadePaths :
                   (StagedForDeletion(staged, p) /\ buildPathHashDigest(p) \in ChildKeys(d)) =>
                       /\ (/\ lastOp'.op = "readDirectory" /\ lastOp'.path = d
                           /\ lastOp'.outcome = "ok") => p \in Range(lastOp'.paths)
                       /\ \A l \in ListingAnswers(d) :
                             (/\ l.ok /\ ~isDirectory(entries, p)
                              /\ Entry("directory", p) \notin Range(l.entries))
                                => Cmd("handleFile", p, NoOptions, "")
                                     \in Range(defaultHandleDirectory(
                                                  entries, directoryFiles, d, NoOptions,
                                                  l).commands)]_vars

\* C19's case: readDirectory returned a path staged for deletion that the backing
\* listing did not hold
C19_Witness ==
    /\ lastOp.op = "readDirectory" /\ lastOp.outcome = "ok"
    /\ lastOp.listing = <<>>
    /\ \E p \in Range(lastOp.paths) :
          StagedForDeletion(staged, p) /\ exists(entries, p) /\ ~isDirectory(entries, p)

\* C20: the i-th command buildExternalFileCommands returns is the command of the path
\* that was the i-th to be staged for the first time: a path first staged before
\* another has its command before the other's, and staging a path again leaves its
\* command where it was.
C20_FirstStageOrder ==
    LET commands == buildExternalFileCommands(entries, directoryFiles, changes).commands
    IN  /\ Len(commands) = Cardinality(DOMAIN staged)
        /\ \A i \in 1..Len(commands) :
              /\ commands[i].path \in DOMAIN staged
              /\ staged[commands[i].path].rank = i

\* C20's case: the path staged first was staged again after a second path, and its
\* command is still the first
C20_Witness ==
    /\ lastOp.op = "upsertData" /\ lastOp.path \in DOMAIN staged
    /\ staged[lastOp.path].rank = 1
    /\ Cardinality(DOMAIN staged) = 2
    /\ buildExternalFileCommands(entries, directoryFiles, changes).commands[1]
          = [kind |-> "upsertFile", path |-> lastOp.path, data |-> lastOp.data]

----------------------------------------------------------------------------
(* Claims about a run; they are stated of SpecRun *)

\* the run of the end-to-end scenario: the test repomod from the root of a tree
\* whose subtrees hold index.html / Document.tsx pairs
EndToEnd ==
    /\ repomod.handleFile = "test" /\ repomod.handleData = "test"
    /\ rootPath = <<>>
    /\ backing \in {TestTree, LoneTree}

\* the directories that hold both index.html and Document.tsx
PairDirectories ==
    {d \in DOMAIN backing :
        /\ Append(d, "index.html") \in DOMAIN backing
        /\ Append(d, "Document.tsx") \in DOMAIN backing}

ExpectedCommands ==
    {[kind |-> "deleteFile", path |-> Append(d, "index.html")] : d \in PairDirectories}
    \cup {[kind |-> "upsertFile", path |-> Append(d, "Document.tsx"),
           data |-> backing[Append(d, "index.html")].data] : d \in PairDirectories}

\* C8: the end-to-end run does not throw and is never stuck before it returns, and it
\* returns exactly four commands: for each of the two subtrees one
\* deleteFile{index.html} and one upsertFile{Document.tsx, data = the backing content
\* of that subtree's index.html}; an index.html without a Document.tsx sibling gives
\* no command.
C8_EndToEnd ==
    EndToEnd =>
        /\ status # "threw"
        /\ status \in {"idle", "running"} => ENABLED NextRun
        /\ status = "returned" =>
              /\ Len(result) = 4
              /\ Range(result) = ExpectedCommands

\* C8's case: the run has returned, over the tree with a lone index.html
C8_Witness ==
    /\ EndToEnd /\ backing = LoneTree /\ repomod.includePatterns = "**/index.html"
    /\ status = "returned"
    /\ Len(result) = 4

RootIsNeither == rootPath \in DOMAIN backing /\ backing[rootPath].kind \notin {"file", "directory"}
RootDescribeFails == rootPath \notin DOMAIN backing

\* C10 as stated: when describe-path classifies the root as neither file nor directory,
\* or fails, executeRepomod returns the empty list without raising, invokes no hook
\* and stages nothing.
C10_Original ==
    (status # "idle" /\ (RootIsNeither \/ RootDescribeFails))
        => /\ status = "returned" /\ result = <<>>
           /\ hookLog = <<>> /\ changes = <<>>

\* C10, amended: when describe-path classifies the root as neither file nor
\* directory, executeRepomod returns the empty list, invokes no hook and stages
\* nothing; when describe-path fails for the root, executeRepomod raises, having
\* invoked no hook and staged nothing.
C10_RootOfNeitherKind ==
    /\ (status # "idle" /\ RootIsNeither)
          => /\ status = "returned" /\ result = <<>>
             /\ hookLog = <<>> /\ changes = <<>>
    /\ (status # "idle" /\ RootDescribeFails)
          => /\ status = "threw" /\ result = <<>>
             /\ hookLog = <<>> /\ changes = <<>>

\* C10's case: executeRepomod has returned for a root that is neither file nor directory
C10_Witness == RootIsNeither /\ status = "returned" /\ stack = <<>>

\* the step the run takes next has a hook or a backing collaborator raise
RaisesNext ==
    \/ status = "idle" /\ rootPath \notin DOMAIN backing
    \/ /\ status = "running" /\ stack # <<>>
       /\ LET command == Head(stack)
          IN  \/ /\ command.kind = "upsertFile"
                 /\ StagedForDeletion(staged, command.path)
              \/ /\ command.kind = "handleFile" /\ repomod.handleFile = "retire"
                 /\ StagedForDeletion(staged, command.path)
              \/ /\ command.kind = "handleDirectoryRest"
                 /\ exists(entries, command.path)
                 /\ (command.path \notin DOMAIN backing
                     \/ backing[command.path].kind # "directory")
              \/ /\ command.kind \in {"handleFile", "handleDirectoryRest"}
                 /\ ~exists(entries, command.path)
                 /\ command.path \notin DOMAIN backing

\* C13: when a hook or a backing collaborator raises during a run (a read of a path
\* staged for deletion, by handleCommand or by a hook; a rejected describe-path or
\* list-directory), executeRepomod raises; the step that raises leaves the Change
\* Ledger as it was, no command list is returned, and the run takes no step after it.
C13_AbortWithoutRollback ==
    [][/\ status # "threw"
       /\ RaisesNext => status' = "threw"
       /\ status' = "threw" =>
             /\ changes' = changes /\ staged' = staged
             /\ result' = <<>>]_vars

\* C13's case: a hook read a path the run had staged for deletion; the run has
\* raised with the deletion still staged and commands left unhandled
C13_Witness ==
    /\ status = "threw" /\ repomod = RetireRepomod
    /\ changes # <<>> /\ \E p \in DOMAIN staged : StagedForDeletion(staged, p)
    /\ Len(stack) > 1
    /\ result = <<>>

\* C14: handling a moveFile, copyFile or noop command leaves the Change Ledger, the
\* Entry Cache and the Directory Membership Index as they were, invokes no hook and
\* does not raise; the run goes on with the command that follows it.
C14_UnhandledKindsInert ==
    [][(/\ status = "running" /\ stack # <<>>
        /\ Head(stack).kind \in {"moveFile", "copyFile", "noop"})
          => /\ entries' = entries /\ directoryFiles' = directoryFiles
             /\ changes' = changes
             /\ hookLog' = hookLog
             /\ status' = "running"
             /\ stack' = Tail(stack)]_vars

\* C14's case: the moveFile and copyFile commands of a file hook have been handled,
\* and the deleteFile command the hook returned after them is the next to handle
C14_Witness ==
    /\ repomod = MoveRepomod /\ status = "running" /\ stack # <<>>
    /\ Head(stack).kind = "deleteFile"
    /\ Head(stack).chain # <<>> /\ Head(stack).chain[Len(Head(stack).chain)] = 3
    /\ changes # <<>>

\* chain c1 lies under an earlier sibling than chain c2: at the first place they
\* differ, c1 has the smaller number
UnderEarlierSibling(c1, c2) ==
    \E k \in 1..Len(c1) :
        /\ k <= Len(c2)
        /\ SubSeq(c1, 1, k - 1) = SubSeq(c2, 1, k - 1)
        /\ c1[k] < c2[k]

\* C15: when the handling of a command issues the commands c1..cn, every hook
\* invocation and every stage made for ci, or for a command issued for ci at any
\* depth, comes before every hook invocation and stage made for a later cj; and no
\* command still to be handled lies under an earlier sibling than a command that has
\* already invoked a hook or staged.
C15_DepthFirstSequential ==
    /\ \A m, n \in 1..Len(hookLog) :
          UnderEarlierSibling(hookLog[m].chain, hookLog[n].chain) => m < n
    /\ \A n \in 1..Len(hookLog) : \A i \in 1..Len(stack) :
          ~UnderEarlierSibling(stack[i].chain, hookLog[n].chain)

\* C15's case: a run has returned in which a stage was made three commands deep under
\* one child of the root before the directory hook was invoked for a later child
C15_Witness ==
    /\ status = "returned"
    /\ \E m, n \in 1..Len(hookLog) :
          /\ m < n
          /\ hookLog[m].event \in {"deleteFile", "upsertData"}
          /\ Len(hookLog[m].chain) >= 3
          /\ hookLog[n].event = "handleDirectory"
          /\ Len(hookLog[n].chain) = 1
          /\ hookLog[m].chain[1] < hookLog[n].chain[1]

\* the kind the backing store gives a path
KindOf(path) == IF path \in DOMAIN backing THEN backing[path].kind ELSE "none"

\* C16: the file hook is never invoked for a handleFile command on a path that is a
\* directory, nor the directory hook for a handleDirectory command on a path that is
\* a file, and a run whose only failures could come from such commands does not raise.
C16_KindMismatchAbandons ==
    /\ \A n \in 1..Len(hookLog) :
          /\ hookLog[n].event = "handleFile" => KindOf(hookLog[n].path) # "directory"
          /\ hookLog[n].event = "handleDirectory" => KindOf(hookLog[n].path) # "file"
    /\ (repomod = BothRepomod /\ rootPath \in DOMAIN backing) => status # "threw"

\* the files below directory d that the include patterns select
PatternSelected(d) ==
    {q \in DOMAIN backing :
        /\ Len(q) > Len(d) /\ IsPrefix(d, q)
        /\ backing[q].kind = "file"
        /\ GlobMatch(repomod.includePatterns, getBasename(q))}

\* how often the hook was invoked, or the stage made, for path
Count(event, path) ==
    Cardinality({n \in 1..Len(hookLog) :
                    hookLog[n].event = event /\ hookLog[n].path = path})

\* when the directory hook is invoked for d, handleCommand has issued one handleFile
\* command per file the include patterns select below d, the file hook has been
\* invoked for each, and whatever these commands caused has happened; whatever the
\* commands of the directory hook cause happens later
FastPathFirst ==
    \A n \in 1..Len(hookLog) :
        (hookLog[n].event = "handleDirectory" /\ repomod.includePatterns # Undefined) =>
            LET e == hookLog[n]
                fast == {Append(e.chain, i) : i \in 1..e.issued}
            IN  /\ e.issued = Cardinality(PatternSelected(e.path))
                /\ \A q \in PatternSelected(e.path) :
                      \E m \in 1..(n - 1) :
                          /\ hookLog[m].event = "handleFile" /\ hookLog[m].path = q
                          /\ hookLog[m].chain \in fast
                /\ \A m \in 1..Len(hookLog) :
                      (Len(hookLog[m].chain) > Len(e.chain)
                       /\ IsPrefix(e.chain, hookLog[m].chain)) =>
                          (m < n <=> SubSeq(hookLog[m].chain, 1, Len(e.chain) + 1) \in fast)

DefaultDirectoryHookRun ==
    /\ repomod.includePatterns # Undefined /\ repomod.handleDirectory = Undefined
    /\ KindOf(rootPath) = "directory"

DefaultRun == repomod = DefaultRepomod /\ rootPath \in DOMAIN backing

\* the files and directories reachable from the root
Reachable(kind) ==
    {q \in DOMAIN backing :
        /\ IsPrefix(rootPath, q) /\ backing[q].kind = kind
        /\ KindOf(rootPath) \in {"file", "directory"}}

\* C18: a run of the repomod with no hooks and no include patterns does not raise and
\* stages nothing, and it eventually returns; when it has returned, the list returned
\* is empty, the directory hook has been invoked once for every directory reachable
\* from the root, and the file hook and the data hook once for every reachable file.
C18_DefaultRunTerminates ==
    /\ [](DefaultRun =>
            /\ status # "threw" /\ changes = <<>>
            /\ status = "returned" =>
                  /\ result = <<>>
                  /\ \A d \in Reachable("directory") : Count("handleDirectory", d) = 1
                  /\ \A f \in Reachable("file") :
                        Count("handleFile", f) = 1 /\ Count("handleData", f) = 1)
    /\ (DefaultRun => <>(status = "returned"))

\* C18's case: the default run over the test volume has returned, having visited the
\* files three directories deep
C18_Witness ==
    /\ DefaultRun /\ rootPath = <<>> /\ backing = LoneTree
    /\ status = "returned" /\ result = <<>> /\ changes = <<>>
    /\ Count("handleData", <<"a", "b", "c", "index.html">>) = 1

====
